---- MODULE Spec2Model ----
(***************************************************************************)
(* Model of the deployment layer of google.adk.cli: the deployer factory,  *)
(* the local Docker deployer and the Cloud Run deployer (project           *)
(* resolution, passthrough-argument validation, environment collection,    *)
(* command assembly and the external tool invocations).                    *)
(*                                                                         *)
(* Python strings are sequences of one-character strings, so that          *)
(* startswith, split, strip, join, lower and sorted are computed the way   *)
(* the code computes them.  Only the fixed text of a message is kept as    *)
(* one multi-character element.                                            *)
(***************************************************************************)
EXTENDS Integers, Sequences, FiniteSets, TLC

VARIABLES
    pc,                 \* position of the running call
    cloud_provider,     \* names still to be passed to get_deployer
    objects,            \* type of every deployer object created so far
    returned,           \* what each get_deployer call returned
    deployer,           \* type of the deployer whose deploy() runs
    kwargs,             \* keyword options of deploy()
    service_name,
    env_vars,           \* CLI env strings
    env_file,           \* the .env file of agent_folder: absent, or its lines
    adk_managed_args,
    project,            \* resolved project
    env_vars_str,
    gcloud_cmd,
    calls,              \* external process invocations, oldest first
    echoed,             \* click.echo lines, oldest first
    error               \* the exception that left the call, if any

vars == <<pc, cloud_provider, objects, returned, deployer, kwargs, service_name,
          env_vars, env_file, adk_managed_args, project, env_vars_str,
          gcloud_cmd, calls, echoed, error>>

----------------------------------------------------------------------------
(* Bounds of the model *)

\* longest passthrough-argument list given to deploy
MaxArgs == 2
\* longest passthrough-argument list given to the validator alone
MaxValidatorArgs == 3
\* longest CLI env list
MaxEnv == 2
\* most lines of a .env file
MaxLines == 2
\* most get_deployer calls in one run
MaxFactoryCalls == 3

----------------------------------------------------------------------------
(* Python str operations *)

\* Characters in code-point order (str comparison compares code points).
CodePointOrder ==
    <<"\t", "\n", "\f", "\r", " ", "#", "'", ",", "-", ".", "/",
      "0", "1", "2", "3", "4", "5", "6", "7", "8", "9", ":", "=",
      "A", "B", "C", "D", "E", "F", "G", "H", "I", "J", "K", "L", "M",
      "N", "O", "P", "Q", "R", "S", "T", "U", "V", "W", "X", "Y", "Z",
      "_",
      "a", "b", "c", "d", "e", "f", "g", "h", "i", "j", "k", "l", "m",
      "n", "o", "p", "q", "r", "s", "t", "u", "v", "w", "x", "y", "z">>

Chars == {CodePointOrder[i] : i \in 1..Len(CodePointOrder)}

Ord == [c \in Chars |-> CHOOSE i \in 1..Len(CodePointOrder) : CodePointOrder[i] = c]

\* a < b for str
StrLess(a, b) ==
    \E k \in 1..(Len(b)) :
        /\ k <= Len(a) + 1
        /\ \A j \in 1..(k - 1) : a[j] = b[j]
        /\ \/ k = Len(a) + 1
           \/ k <= Len(a) /\ Ord[a[k]] < Ord[b[k]]

\* sorted(S) for a set of str
RECURSIVE sorted(_)
sorted(S) ==
    IF S = {} THEN <<>>
    ELSE LET m == CHOOSE x \in S : \A y \in S \ {x} : StrLess(x, y)
         IN <<m>> \o sorted(S \ {m})

\* s.startswith(p)
startswith(s, p) == Len(s) >= Len(p) /\ SubSeq(s, 1, Len(p)) = p

\* c in s
contains(s, c) == \E i \in 1..Len(s) : s[i] = c

\* s.find(c) + 1: position of the first c, 0 when there is none
find(s, c) ==
    IF contains(s, c)
    THEN CHOOSE i \in 1..Len(s) : s[i] = c /\ \A j \in 1..(i - 1) : s[j] # c
    ELSE 0

\* s.split(c)[0]
split_head(s, c) == IF contains(s, c) THEN SubSeq(s, 1, find(s, c) - 1) ELSE s

\* s.split(c, 1) of an s that contains c
split_once(s, c) ==
    <<SubSeq(s, 1, find(s, c) - 1), SubSeq(s, find(s, c) + 1, Len(s))>>

\* str.isspace characters
Whitespace == {" ", "\t", "\n", "\r", "\f"}

\* s.strip()
RECURSIVE lstrip(_)
lstrip(s) == IF s # <<>> /\ Head(s) \in Whitespace THEN lstrip(Tail(s)) ELSE s

RECURSIVE rstrip(_)
rstrip(s) ==
    IF s # <<>> /\ s[Len(s)] \in Whitespace THEN rstrip(SubSeq(s, 1, Len(s) - 1)) ELSE s

strip(s) == rstrip(lstrip(s))

\* sep.join(parts)
RECURSIVE join(_, _)
join(sep, parts) ==
    IF parts = <<>> THEN <<>>
    ELSE IF Len(parts) = 1 THEN parts[1]
    ELSE parts[1] \o sep \o join(sep, Tail(parts))

UpperCase == <<"A", "B", "C", "D", "E", "F", "G", "H", "I", "J", "K", "L", "M", "N", "O", "P", "Q", "R", "S", "T", "U", "V", "W", "X", "Y", "Z">>
LowerCase == <<"a", "b", "c", "d", "e", "f", "g", "h", "i", "j", "k", "l", "m", "n", "o", "p", "q", "r", "s", "t", "u", "v", "w", "x", "y", "z">>

\* s.lower()
lower(s) ==
    [i \in 1..Len(s) |->
        IF \E k \in 1..Len(UpperCase) : UpperCase[k] = s[i]
        THEN LowerCase[CHOOSE k \in 1..Len(UpperCase) : UpperCase[k] = s[i]]
        ELSE s[i]]

Digits == <<"0", "1", "2", "3", "4", "5", "6", "7", "8", "9">>

\* str(n) for an int n >= 0
RECURSIVE str(_)
str(n) == IF n < 10 THEN <<Digits[n + 1]>> ELSE str(n \div 10) \o <<Digits[(n % 10) + 1]>>

\* all sequences over S of length at most n
SeqUpTo(S, n) == UNION {[1..k -> S] : k \in 0..n}

----------------------------------------------------------------------------
(* Python values *)

\* an optional value: a dict key that is missing, None, or a value
Missing == [key |-> FALSE, some |-> FALSE, val |-> <<>>]
PyNone == [key |-> TRUE, some |-> FALSE, val |-> <<>>]
Given(v) == [key |-> TRUE, some |-> TRUE, val |-> v]

\* d.get(k) and d.get(k, default)
get(d, k, default) == IF d[k].key THEN d[k] ELSE default

\* bool(o) for None, a str or a tuple
truthy(o) == o.some /\ o.val # <<>>

\* f'{o}' for None or a str
format(o) == IF o.some THEN o.val ELSE <<"N", "o", "n", "e">>

NoError == [type |-> "", message |-> <<>>]
ClickException(msg) == [type |-> "ClickException", message |-> msg]
CalledProcessError == [type |-> "CalledProcessError", message |-> <<>>]
ValueError(msg) == [type |-> "ValueError", message |-> msg]

----------------------------------------------------------------------------
(* CloudRunDeployer._validate_gcloud_extra_args *)

\* a variant that keeps "--flag=value" whole instead of cutting it at "="
user_arg_names_uncut(extra_gcloud_args) ==
    {extra_gcloud_args[i] :
        i \in {j \in 1..Len(extra_gcloud_args) : startswith(extra_gcloud_args[j], <<"-", "-">>)}}

\* argument names of the passthrough arguments that start with "--"
user_arg_names(extra_gcloud_args) ==
    {split_head(extra_gcloud_args[i], "=") :
        i \in {j \in 1..Len(extra_gcloud_args) : startswith(extra_gcloud_args[j], <<"-", "-">>)}}

\* a variant that matches a managed name as a prefix of the argument name
conflicts_by_prefix(extra_gcloud_args, managed) ==
    {n \in user_arg_names(extra_gcloud_args) : \E m \in managed : startswith(n, m)}

conflicts(extra_gcloud_args, managed) == user_arg_names(extra_gcloud_args) \cap managed

\* ', '.join(f"'{arg}'" for arg in sorted(conflicts))
conflict_list(names) ==
    join(<<",", " ">>, [i \in 1..Len(names) |-> <<"'">> \o names[i] \o <<"'">>])

SingularMessage(list) ==
    <<"The argument ">> \o list
    \o <<" conflicts with ADK's automatic configuration. ADK will set this argument automatically, so please remove it from your command.">>

PluralMessage(list) ==
    <<"The arguments ">> \o list
    \o <<" conflict with ADK's automatic configuration. ADK will set these arguments automatically, so please remove them from your command.">>

\* the exception the validator raises, NoError when it returns
validate_gcloud_extra_args(extra_gcloud_args, managed) ==
    IF ~truthy(extra_gcloud_args) THEN NoError
    ELSE LET c == conflicts(extra_gcloud_args.val, managed)
         IN IF c = {} THEN NoError
            ELSE IF Cardinality(c) = 1
                 THEN ClickException(SingularMessage(conflict_list(sorted(c))))
                 ELSE ClickException(PluralMessage(conflict_list(sorted(c))))

----------------------------------------------------------------------------
(* CloudRunDeployer: environment collection *)

\* [item for item in q if '=' in item]
RECURSIVE valid_pairs(_)
valid_pairs(q) ==
    IF q = <<>> THEN <<>>
    ELSE (IF contains(Head(q), "=") THEN <<Head(q)>> ELSE <<>>) \o valid_pairs(Tail(q))

build_env_vars_string(cli_env) == join(<<",">>, valid_pairs(cli_env))

\* f.readlines(): the text cut after every newline, the newlines kept
RECURSIVE readlines(_)
readlines(text) ==
    IF text = <<>> THEN <<>>
    ELSE IF contains(text, "\n")
         THEN <<SubSeq(text, 1, find(text, "\n"))>>
              \o readlines(SubSeq(text, find(text, "\n") + 1, Len(text)))
         ELSE <<text>>

\* a variant that does not strip the line
RECURSIVE env_file_entries_unstripped(_)
env_file_entries_unstripped(lines) ==
    IF lines = <<>> THEN <<>>
    ELSE LET line == Head(lines)
             keep == line # <<>> /\ ~startswith(line, <<"#">>) /\ contains(line, "=")
             kv == split_once(line, "=")
         IN (IF keep THEN <<kv[1] \o <<"=">> \o kv[2]>> ELSE <<>>)
            \o env_file_entries_unstripped(Tail(lines))

\* the loop over the lines of the .env file
RECURSIVE env_file_entries(_)
env_file_entries(lines) ==
    IF lines = <<>> THEN <<>>
    ELSE LET line == strip(Head(lines))
             keep == line # <<>> /\ ~startswith(line, <<"#">>) /\ contains(line, "=")
             kv == split_once(line, "=")
         IN (IF keep THEN <<kv[1] \o <<"=">> \o kv[2]>> ELSE <<>>)
            \o env_file_entries(Tail(lines))

\* file = [exists, text]: the .env file of agent_folder
build_env_file_arg(file) ==
    IF file.exists THEN join(<<",">>, env_file_entries(readlines(file.text))) ELSE <<>>

\* deploy, "Add environment variables"
collect_env(cli_env, file) ==
    LET a == build_env_vars_string(cli_env)
        b == build_env_file_arg(file)
    IN IF a # <<>> /\ b # <<>> THEN a \o <<",">> \o b
       ELSE IF a = <<>> THEN b
       ELSE a

\* a variant that joins with a comma whether or not there is anything before it
add_required_env_vars_always_comma(s, proj, region) ==
    s \o <<",">> \o <<"G", "O", "O", "G", "L", "E", "_", "C", "L", "O", "U", "D", "_", "P", "R", "O", "J", "E", "C", "T", "=">> \o proj
      \o <<",", "G", "O", "O", "G", "L", "E", "_", "C", "L", "O", "U", "D", "_", "L", "O", "C", "A", "T", "I", "O", "N", "=">> \o format(region)

add_required_env_vars(s, proj, region) ==
    LET extra_envs == <<<<"G", "O", "O", "G", "L", "E", "_", "C", "L", "O", "U", "D", "_", "P", "R", "O", "J", "E", "C", "T", "=">> \o proj,
                        <<"G", "O", "O", "G", "L", "E", "_", "C", "L", "O", "U", "D", "_", "L", "O", "C", "A", "T", "I", "O", "N", "=">> \o format(region)>>
    IN IF s # <<>> THEN s \o <<",">> \o join(<<",">>, extra_envs)
       ELSE join(<<",">>, extra_envs)

----------------------------------------------------------------------------
(* CloudRunDeployer._resolve_project *)

LookupArgv == <<<<"g", "c", "l", "o", "u", "d">>, <<"c", "o", "n", "f", "i", "g">>, <<"g", "e", "t", "-", "v", "a", "l", "u", "e">>, <<"p", "r", "o", "j", "e", "c", "t">>>>

\* what `gcloud config get-value project` can do
LookupOutcomes ==
    {[returncode |-> 1, stdout |-> <<>>],
     [returncode |-> 0, stdout |-> <<>>],
     [returncode |-> 0, stdout |-> <<" ", "\n">>],
     [returncode |-> 0, stdout |-> <<" ", "p", "2", "\n">>]}

\* a variant that returns the lookup's output as printed
resolve_project_unstripped(project_in_option, out) ==
    IF truthy(project_in_option)
    THEN [project |-> project_in_option.val, error |-> NoError,
          calls |-> <<>>, echoed |-> <<>>]
    ELSE LET call == <<[argv |-> LookupArgv, returncode |-> out.returncode,
                       stdout |-> out.stdout]>>
         IN IF out.returncode # 0
            THEN [project |-> <<>>,
                  error |-> ClickException(<<"Failed to get project from gcloud: ",
                                             "CalledProcessError">>),
                  calls |-> call, echoed |-> <<>>]
            ELSE IF out.stdout = <<>>
            THEN [project |-> <<>>,
                  error |-> ClickException(<<"No project ID found in gcloud config.">>),
                  calls |-> call, echoed |-> <<>>]
            ELSE [project |-> out.stdout, error |-> NoError, calls |-> call,
                  echoed |-> << <<"Using default project: ">> \o out.stdout >>]

\* the outcome of _resolve_project when the lookup ends as `out`
resolve_project(project_in_option, out) ==
    IF truthy(project_in_option)
    THEN [project |-> project_in_option.val, error |-> NoError,
          calls |-> <<>>, echoed |-> <<>>]
    ELSE LET call == <<[argv |-> LookupArgv, returncode |-> out.returncode,
                       stdout |-> out.stdout]>>
             found == strip(out.stdout)
         IN IF out.returncode # 0
            THEN [project |-> <<>>,
                  error |-> ClickException(<<"Failed to get project from gcloud: ",
                                             "CalledProcessError">>),
                  calls |-> call, echoed |-> <<>>]
            ELSE IF found = <<>>
            THEN [project |-> <<>>,
                  error |-> ClickException(<<"No project ID found in gcloud config.">>),
                  calls |-> call, echoed |-> <<>>]
            ELSE [project |-> found, error |-> NoError, calls |-> call,
                  echoed |-> << <<"Using default project: ">> \o found >>]

----------------------------------------------------------------------------
(* CloudRunDeployer.deploy: the command *)

TempFolder == <<"/", "t", "m", "p", "/", "s", "t", "a", "g", "e">>
AgentFolder == <<"/", "a", "g", "e", "n", "t">>

DefaultRegion == Given(<<"u", "s", "-", "c", "e", "n", "t", "r", "a", "l", "1">>)
DefaultPort == 8000
DefaultVerbosity == Given(<<"i", "n", "f", "o">>)

region_of(kw) == get(kw, "region", DefaultRegion)
port_of(kw) == IF kw.port.key THEN kw.port.val ELSE DefaultPort

\* "Build the set of args that ADK will manage"
managed_args(kw) ==
    {<<"-", "-", "s", "o", "u", "r", "c", "e">>, <<"-", "-", "p", "r", "o", "j", "e", "c", "t">>, <<"-", "-", "p", "o", "r", "t">>, <<"-", "-", "v", "e", "r", "b", "o", "s", "i", "t", "y">>}
    \cup (IF truthy(region_of(kw)) THEN {<<"-", "-", "r", "e", "g", "i", "o", "n">>} ELSE {})

RECURSIVE user_labels(_)
user_labels(args) ==
    IF args = <<>> THEN <<>>
    ELSE (IF startswith(Head(args), <<"-", "-", "l", "a", "b", "e", "l", "s", "=">>)
          THEN <<SubSeq(Head(args), 10, Len(Head(args)))>> ELSE <<>>)
         \o user_labels(Tail(args))

RECURSIVE extra_args_without_labels(_)
extra_args_without_labels(args) ==
    IF args = <<>> THEN <<>>
    ELSE (IF startswith(Head(args), <<"-", "-", "l", "a", "b", "e", "l", "s", "=">>) THEN <<>> ELSE <<Head(args)>>)
         \o extra_args_without_labels(Tail(args))

labels_arg(args) == join(<<",">>, <<<<"c", "r", "e", "a", "t", "e", "d", "-", "b", "y", "=", "a", "d", "k">>>> \o user_labels(args))

build_gcloud_cmd(name, kw, proj, env_str) ==
    LET region == region_of(kw)
        region_options == IF truthy(region) THEN <<<<"-", "-", "r", "e", "g", "i", "o", "n">>, region.val>> ELSE <<>>
        log_level == get(kw, "log_level", PyNone)
        verbosity == get(kw, "verbosity", DefaultVerbosity)
        extra == get(kw, "extra_gcloud_args", PyNone)
        passthrough == IF truthy(extra) THEN extra.val ELSE <<>>
    IN <<<<"g", "c", "l", "o", "u", "d">>, <<"r", "u", "n">>, <<"d", "e", "p", "l", "o", "y">>, name,
         <<"-", "-", "s", "o", "u", "r", "c", "e">>, TempFolder,
         <<"-", "-", "p", "r", "o", "j", "e", "c", "t">>, proj>>
       \o region_options
       \o <<<<"-", "-", "p", "o", "r", "t">>, str(port_of(kw)),
            <<"-", "-", "s", "e", "t", "-", "e", "n", "v", "-", "v", "a", "r", "s">>, env_str,
            <<"-", "-", "v", "e", "r", "b", "o", "s", "i", "t", "y">>,
            IF truthy(log_level) THEN lower(log_level.val) ELSE verbosity.val>>
       \o <<<<"-", "-", "l", "a", "b", "e", "l", "s">>, labels_arg(passthrough)>>
       \o extra_args_without_labels(passthrough)

----------------------------------------------------------------------------
(* DockerDeployer *)

image_name(name) == <<"a", "d", "k", "-", "p", "y", "t", "h", "o", "n", "-">> \o lower(name)

RECURSIVE get_cli_env_args(_)
get_cli_env_args(cli_env) ==
    IF cli_env = <<>> THEN <<>>
    ELSE (IF contains(Head(cli_env), "=")
          THEN LET kv == split_once(Head(cli_env), "=")
               IN <<<<"-", "e">>, kv[1] \o <<"=">> \o kv[2]>>
          ELSE <<>>)
         \o get_cli_env_args(Tail(cli_env))

get_env_file_arg(file) ==
    IF file.exists THEN <<<<"-", "-", "e", "n", "v", "-", "f", "i", "l", "e">>, AgentFolder \o <<"/", ".", "e", "n", "v">>>> ELSE <<>>

docker_build_argv(name) == <<<<"d", "o", "c", "k", "e", "r">>, <<"b", "u", "i", "l", "d">>, <<"-", "t">>, image_name(name), TempFolder>>

docker_run_argv(name, kw, cli_env, file) ==
    <<<<"d", "o", "c", "k", "e", "r">>, <<"r", "u", "n">>, <<"-", "d">>, <<"-", "p">>, str(port_of(kw)) \o <<":">> \o str(port_of(kw))>>
    \o get_cli_env_args(cli_env) \o get_env_file_arg(file)
    \o <<image_name(name)>>

----------------------------------------------------------------------------
(* DeployerFactory.get_deployer *)

\* the dict built on every call: two fresh objects, by position in `objects`
deployers(objs) ==
    [name \in {"docker", "cloud_run"} |->
        IF name = "docker" THEN Len(objs) + 1 ELSE Len(objs) + 2]

\* a variant that falls back to the Docker deployer for an unknown name
get_deployer_with_default(name, objs) ==
    LET d == deployers(objs)
        created == objs \o <<"DockerDeployer", "CloudRunDeployer">>
    IN [objects |-> created,
        result |-> IF name \in DOMAIN d THEN d[name] ELSE d["docker"],
        error |-> NoError]

\* the objects after the call, and the object returned or the exception raised
get_deployer(name, objs) ==
    LET d == deployers(objs)
        created == objs \o <<"DockerDeployer", "CloudRunDeployer">>
    IN IF name \notin DOMAIN d
       THEN [objects |-> created, result |-> 0,
             error |-> ValueError(<<"Unsupported cloud provider: ", name>>)]
       ELSE [objects |-> created, result |-> d[name], error |-> NoError]

----------------------------------------------------------------------------
(* Inputs *)

NoFile == [exists |-> FALSE, text |-> <<>>]
File(text) == [exists |-> TRUE, text |-> text]

NoKwargs ==
    [project |-> Missing, region |-> Missing, port |-> [key |-> FALSE, val |-> 0],
     verbosity |-> Missing, log_level |-> Missing, extra_gcloud_args |-> Missing]

ServiceNames == {<<"S", "v", "c">>, <<"a", "p", "p">>}

\* passthrough arguments tried on deploy
ArgPool ==
    {<<"-", "-", "l", "a", "b", "e", "l", "s", "=", "a", "=", "b">>, <<"-", "-", "l", "a", "b", "e", "l", "s", "=", "c">>, <<"-", "-", "l", "a", "b", "e", "l", "s">>, <<"-", "-", "p", "o", "r", "t", "=", "9">>, <<"-", "-", "r", "e", "g", "i", "o", "n", "=", "e", "u">>,
     <<"-", "-", "s", "e", "t", "-", "e", "n", "v", "-", "v", "a", "r", "s", "=", "X", "=", "1">>, <<"-", "-", "m", "e", "m", "o", "r", "y", "=", "1", "G", "i">>}

ExtraArgs == {Missing} \cup {Given(q) : q \in SeqUpTo(ArgPool, MaxArgs)}

\* port, verbosity and log_level as given together
OptionProfiles ==
    {[port |-> [key |-> FALSE, val |-> 0], verbosity |-> Missing, log_level |-> Missing],
     [port |-> [key |-> TRUE, val |-> 8080], verbosity |-> Given(<<"w", "a", "r", "n", "i", "n", "g">>),
      log_level |-> Given(<<"D", "E", "B", "U", "G">>)],
     [port |-> [key |-> TRUE, val |-> 8080], verbosity |-> Given(<<"w", "a", "r", "n", "i", "n", "g">>),
      log_level |-> PyNone]}

\* CLI env strings and .env file tried on deploy
EnvCases ==
    {[env_vars |-> <<>>, env_file |-> NoFile],
     [env_vars |-> <<<<"A", "=", "1">>, <<"B">>>>, env_file |-> NoFile],
     [env_vars |-> <<<<"A", "=", "1">>>>, env_file |-> File(<<"C", "=", "3", "\n", "#", "c", "\n", "D", "=", "4">>)]}

CloudKwargs ==
    {[project |-> p, region |-> r, port |-> o.port, verbosity |-> o.verbosity,
      log_level |-> o.log_level, extra_gcloud_args |-> x] :
        p \in {Missing, Given(<<>>), Given(<<"p", "1">>)},
        r \in {Missing, PyNone, Given(<<>>), Given(<<"e", "u">>)},
        o \in OptionProfiles,
        x \in ExtraArgs}

DockerKwargs ==
    {[NoKwargs EXCEPT !.port = o] : o \in {[key |-> FALSE, val |-> 0], [key |-> TRUE, val |-> 8080]}}

ProviderNames == {"docker", "cloud_run", "Docker", "CLOUD_RUN", "", "aws"}

----------------------------------------------------------------------------
(* The deployment run: get_deployer, then deploy on the deployer returned *)

Init ==
    /\ pc = "start"
    /\ cloud_provider \in {<<n>> : n \in ProviderNames}
    /\ objects = <<>>
    /\ returned = <<>>
    /\ deployer = ""
    /\ kwargs = NoKwargs
    /\ service_name = <<>>
    /\ env_vars = <<>>
    /\ env_file = NoFile
    /\ adk_managed_args = {}
    /\ project = <<>>
    /\ env_vars_str = <<>>
    /\ gcloud_cmd = <<>>
    /\ calls = <<>>
    /\ echoed = <<>>
    /\ error = NoError

\* DeployerFactory.get_deployer(cloud_provider)
GetDeployer ==
    /\ pc = "start"
    /\ LET r == get_deployer(cloud_provider[1], objects)
       IN /\ objects' = r.objects
          /\ returned' = Append(returned, [name |-> cloud_provider[1], object |-> r.result,
                                           error |-> r.error])
          /\ error' = r.error
          /\ deployer' = IF r.error = NoError THEN r.objects[r.result] ELSE ""
          /\ pc' = IF r.error = NoError THEN "selected" ELSE "failed"
    /\ UNCHANGED <<cloud_provider, kwargs, service_name, env_vars, env_file,
                   adk_managed_args, project, env_vars_str, gcloud_cmd, calls, echoed>>

\* the caller enters deployer.deploy(agent_folder, temp_folder, service_name, ...)
CallDeploy ==
    /\ pc = "selected"
    /\ \E n \in ServiceNames, e \in EnvCases :
          /\ service_name' = n
          /\ env_vars' = e.env_vars
          /\ env_file' = e.env_file
    /\ IF deployer = "DockerDeployer"
       THEN kwargs' \in DockerKwargs /\ pc' = "docker_build"
       ELSE kwargs' \in CloudKwargs /\ pc' = "resolve_project"
    /\ UNCHANGED <<cloud_provider, objects, returned, deployer, adk_managed_args, project,
                   env_vars_str, gcloud_cmd, calls, echoed, error>>

\* a variant of the build step that does not check the exit status
DockerBuild_unchecked ==
    /\ pc = "docker_build"
    /\ echoed' = Append(echoed, <<"Deploying to Local Docker">>)
    /\ \E rc \in {0, 1} :
          /\ calls' = Append(calls, [argv |-> docker_build_argv(service_name),
                                     returncode |-> rc, stdout |-> <<>>])
          /\ error' = NoError
          /\ pc' = "docker_run"
    /\ UNCHANGED <<cloud_provider, objects, returned, deployer, kwargs, service_name,
                   env_vars, env_file, adk_managed_args, project, env_vars_str, gcloud_cmd>>

\* DockerDeployer.deploy up to the return of `docker build`
DockerBuild ==
    /\ pc = "docker_build"
    /\ echoed' = Append(echoed, <<"Deploying to Local Docker">>)
    /\ \E rc \in {0, 1} :
          /\ calls' = Append(calls, [argv |-> docker_build_argv(service_name),
                                     returncode |-> rc, stdout |-> <<>>])
          /\ error' = IF rc = 0 THEN NoError ELSE CalledProcessError
          /\ pc' = IF rc = 0 THEN "docker_run" ELSE "failed"
    /\ UNCHANGED <<cloud_provider, objects, returned, deployer, kwargs, service_name,
                   env_vars, env_file, adk_managed_args, project, env_vars_str, gcloud_cmd>>

\* DockerDeployer.deploy from env_args to the end
DockerRun ==
    /\ pc = "docker_run"
    /\ \E rc \in {0, 1} :
          /\ calls' = Append(calls,
                             [argv |-> docker_run_argv(service_name, kwargs, env_vars, env_file),
                              returncode |-> rc, stdout |-> <<>>])
          /\ error' = IF rc = 0 THEN NoError ELSE CalledProcessError
          /\ echoed' = IF rc = 0
                       THEN Append(echoed, <<"Container running locally at http://localhost:">>
                                           \o str(port_of(kwargs)))
                       ELSE echoed
          /\ pc' = IF rc = 0 THEN "done" ELSE "failed"
    /\ UNCHANGED <<cloud_provider, objects, returned, deployer, kwargs, service_name,
                   env_vars, env_file, adk_managed_args, project, env_vars_str, gcloud_cmd>>

\* CloudRunDeployer.deploy: project = self._resolve_project(kwargs.get('project'))
ResolveProject ==
    /\ pc = "resolve_project"
    /\ \E out \in LookupOutcomes :
          LET r == resolve_project(get(kwargs, "project", PyNone), out)
          IN /\ project' = r.project
             /\ calls' = calls \o r.calls
             /\ echoed' = echoed \o r.echoed
             /\ error' = r.error
             /\ pc' = IF r.error = NoError THEN "validate" ELSE "failed"
    /\ UNCHANGED <<cloud_provider, objects, returned, deployer, kwargs, service_name,
                   env_vars, env_file, adk_managed_args, env_vars_str, gcloud_cmd>>

\* CloudRunDeployer.deploy: the managed set and its validation
ValidateExtraArgs ==
    /\ pc = "validate"
    /\ adk_managed_args' = managed_args(kwargs)
    /\ error' = validate_gcloud_extra_args(get(kwargs, "extra_gcloud_args", PyNone),
                                           managed_args(kwargs))
    /\ pc' = IF error' = NoError THEN "build" ELSE "failed"
    /\ UNCHANGED <<cloud_provider, objects, returned, deployer, kwargs, service_name,
                   env_vars, env_file, project, env_vars_str, gcloud_cmd, calls, echoed>>

\* CloudRunDeployer.deploy: environment string and command
BuildCommand ==
    /\ pc = "build"
    /\ env_vars_str' = add_required_env_vars(collect_env(env_vars, env_file), project,
                                             region_of(kwargs))
    /\ gcloud_cmd' = build_gcloud_cmd(service_name, kwargs, project, env_vars_str')
    /\ pc' = "run_gcloud"
    /\ UNCHANGED <<cloud_provider, objects, returned, deployer, kwargs, service_name,
                   env_vars, env_file, adk_managed_args, project, calls, echoed, error>>

\* the commands handed to `gcloud run deploy`
IsDeployCall(c) == Len(c.argv) >= 3 /\ SubSeq(c.argv, 1, 3) = <<<<"g", "c", "l", "o", "u", "d">>, <<"r", "u", "n">>, <<"d", "e", "p", "l", "o", "y">>>>
DeployCalls == {i \in 1..Len(calls) : IsDeployCall(calls[i])}

\* a variant that invokes the tool a second time after a non-zero exit
RunGcloud_retrying ==
    /\ pc = "run_gcloud"
    /\ \E rc \in {0, 1} :
          /\ calls' = Append(calls, [argv |-> gcloud_cmd, returncode |-> rc, stdout |-> <<>>])
          /\ error' = IF rc = 0 \/ Cardinality(DeployCalls) = 0 THEN NoError
                      ELSE CalledProcessError
          /\ pc' = IF rc = 0 THEN "done"
                   ELSE IF Cardinality(DeployCalls) = 0 THEN "run_gcloud"
                   ELSE "failed"
    /\ UNCHANGED <<cloud_provider, objects, returned, deployer, kwargs, service_name,
                   env_vars, env_file, adk_managed_args, project, env_vars_str, gcloud_cmd,
                   echoed>>

\* CloudRunDeployer.deploy: subprocess.run(gcloud_cmd, check=True)
RunGcloud ==
    /\ pc = "run_gcloud"
    /\ \E rc \in {0, 1} :
          /\ calls' = Append(calls, [argv |-> gcloud_cmd, returncode |-> rc, stdout |-> <<>>])
          /\ error' = IF rc = 0 THEN NoError ELSE CalledProcessError
          /\ pc' = IF rc = 0 THEN "done" ELSE "failed"
    /\ UNCHANGED <<cloud_provider, objects, returned, deployer, kwargs, service_name,
                   env_vars, env_file, adk_managed_args, project, env_vars_str, gcloud_cmd,
                   echoed>>

Next ==
    \/ GetDeployer
    \/ CallDeploy
    \/ DockerBuild
    \/ DockerRun
    \/ ResolveProject
    \/ ValidateExtraArgs
    \/ BuildCommand
    \/ RunGcloud

Spec == Init /\ [][Next]_vars

----------------------------------------------------------------------------
(* _validate_gcloud_extra_args on its own *)

ManagedNames == {<<"-", "-", "s", "o", "u", "r", "c", "e">>, <<"-", "-", "p", "r", "o", "j", "e", "c", "t">>, <<"-", "-", "p", "o", "r", "t">>, <<"-", "-", "v", "e", "r", "b", "o", "s", "i", "t", "y">>, <<"-", "-", "r", "e", "g", "i", "o", "n">>}

ValidatorArgPool ==
    {<<"-", "-", "p", "o", "r", "t">>, <<"-", "-", "p", "o", "r", "t", "=", "9">>, <<"-", "-", "p", "o", "r", "t", "s", "=", "1">>, <<"-", "-", "s", "o", "u", "r", "c", "e", "=", "a", "=", "b">>, <<"-", "-", "p", "r", "o", "j", "e", "c", "t", "=", "p">>,
     <<"-", "-", "r", "e", "g", "i", "o", "n">>, <<"p", "o", "r", "t", "=", "9">>, <<"-", "-", "m", "e", "m", "o", "r", "y", "=", "1", "G", "i">>}

InitValidate ==
    /\ pc = "validate_only"
    /\ kwargs \in {[NoKwargs EXCEPT !.extra_gcloud_args = x] :
                      x \in {PyNone} \cup {Given(q) : q \in SeqUpTo(ValidatorArgPool,
                                                                   MaxValidatorArgs)}}
    /\ adk_managed_args \in SUBSET ManagedNames
    /\ cloud_provider = <<>>
    /\ objects = <<>>
    /\ returned = <<>>
    /\ deployer = "CloudRunDeployer"
    /\ service_name = <<>>
    /\ env_vars = <<>>
    /\ env_file = NoFile
    /\ project = <<>>
    /\ env_vars_str = <<>>
    /\ gcloud_cmd = <<>>
    /\ calls = <<>>
    /\ echoed = <<>>
    /\ error = NoError

ValidateOnly ==
    /\ pc = "validate_only"
    /\ error' = validate_gcloud_extra_args(kwargs.extra_gcloud_args, adk_managed_args)
    /\ pc' = IF error' = NoError THEN "returned" ELSE "raised"
    /\ UNCHANGED <<cloud_provider, objects, returned, deployer, kwargs, service_name,
                   env_vars, env_file, adk_managed_args, project, env_vars_str, gcloud_cmd,
                   calls, echoed>>

NextValidate == ValidateOnly

SpecValidate == InitValidate /\ [][NextValidate]_vars

----------------------------------------------------------------------------
(* The environment collection on its own *)

CliEnvPool == {<<"A", "=", "1">>, <<"B">>, <<"A", "=", "2">>, <<"=">>}

LinePool == {<<"C", "=", "3">>, <<"#", "c", "=", "1">>, <<"D">>, <<>>, <<" ", "E", "=", "5", " ">>, <<" ", "#", "x", "=", "1">>, <<"F", "=", "a", "=", "b">>}

FileTexts ==
    {join(<<"\n">>, ls) \o t : ls \in SeqUpTo(LinePool, MaxLines), t \in {<<>>, <<"\n">>}}

InitEnv ==
    /\ pc = "collect_only"
    /\ env_vars \in SeqUpTo(CliEnvPool, MaxEnv)
    /\ env_file \in {NoFile} \cup {File(t) : t \in FileTexts}
    /\ kwargs = NoKwargs
    /\ adk_managed_args = {}
    /\ cloud_provider = <<>>
    /\ objects = <<>>
    /\ returned = <<>>
    /\ deployer = "CloudRunDeployer"
    /\ service_name = <<>>
    /\ project = <<>>
    /\ env_vars_str = <<>>
    /\ gcloud_cmd = <<>>
    /\ calls = <<>>
    /\ echoed = <<>>
    /\ error = NoError

CollectEnv ==
    /\ pc = "collect_only"
    /\ env_vars_str' = collect_env(env_vars, env_file)
    /\ pc' = "collected"
    /\ UNCHANGED <<cloud_provider, objects, returned, deployer, kwargs, service_name,
                   env_vars, env_file, adk_managed_args, project, gcloud_cmd, calls, echoed,
                   error>>

NextEnv == CollectEnv

SpecEnv == InitEnv /\ [][NextEnv]_vars

----------------------------------------------------------------------------
(* get_deployer on its own, called for each name in turn *)

InitFactory ==
    /\ pc = "factory"
    /\ cloud_provider \in SeqUpTo(ProviderNames, MaxFactoryCalls)
    /\ objects = <<>>
    /\ returned = <<>>
    /\ deployer = ""
    /\ kwargs = NoKwargs
    /\ service_name = <<>>
    /\ env_vars = <<>>
    /\ env_file = NoFile
    /\ adk_managed_args = {}
    /\ project = <<>>
    /\ env_vars_str = <<>>
    /\ gcloud_cmd = <<>>
    /\ calls = <<>>
    /\ echoed = <<>>
    /\ error = NoError

FactoryCall ==
    /\ pc = "factory"
    /\ Len(returned) < Len(cloud_provider)
    /\ LET name == cloud_provider[Len(returned) + 1]
           r == get_deployer(name, objects)
       IN /\ objects' = r.objects
          /\ returned' = Append(returned, [name |-> name, object |-> r.result,
                                           error |-> r.error])
          /\ error' = r.error
          /\ deployer' = IF r.error = NoError THEN r.objects[r.result] ELSE ""
    /\ UNCHANGED <<pc, cloud_provider, kwargs, service_name, env_vars, env_file,
                   adk_managed_args, project, env_vars_str, gcloud_cmd, calls, echoed>>

NextFactory == FactoryCall

SpecFactory == InitFactory /\ [][NextFactory]_vars

----------------------------------------------------------------------------
(* Vocabulary of the properties *)

\* the flag name of one argument: the text before the first "=" of a
\* "--flag=value" argument, the whole argument otherwise
FlagName(arg) ==
    IF startswith(arg, <<"-", "-">>) /\ contains(arg, "=")
    THEN SubSeq(arg, 1, (CHOOSE i \in 1..Len(arg) :
                            arg[i] = "=" /\ \A j \in 1..(i - 1) : arg[j] # "=") - 1)
    ELSE arg

PassthroughOf(kw) == IF kw.extra_gcloud_args.some THEN kw.extra_gcloud_args.val ELSE <<>>

\* the managed names that a passthrough argument names
Conflicting(kw, managed) ==
    {FlagName(PassthroughOf(kw)[i]) : i \in 1..Len(PassthroughOf(kw))} \cap managed

\* q lists the members of S, each once, in ascending order
ListsSorted(q, S) ==
    /\ Len(q) = Cardinality(S)
    /\ {q[i] : i \in 1..Len(q)} = S
    /\ \A i \in 1..(Len(q) - 1) : StrLess(q[i], q[i + 1])

\* 'a', 'b', 'c'
Quoted(q) ==
    IF q = <<>> THEN <<>>
    ELSE LET Q(i) == <<"'">> \o q[i] \o <<"'">>
             RECURSIVE From(_)
             From(i) == IF i = Len(q) THEN Q(i) ELSE Q(i) \o <<",", " ">> \o From(i + 1)
         IN From(1)

\* C1: whenever some passthrough argument names a managed flag, the validator
\* raises, and the message lists exactly the conflicting names, each once, in
\* sorted order, with "The argument ... conflicts" for one name and
\* "The arguments ... conflict" for two or more.
C1_ConflictsRejected ==
    (pc \in {"returned", "raised"} /\ Conflicting(kwargs, adk_managed_args) # {}) =>
        /\ pc = "raised"
        /\ error.type = "ClickException"
        /\ \E q \in SeqUpTo(Conflicting(kwargs, adk_managed_args),
                            Cardinality(Conflicting(kwargs, adk_managed_args))) :
              /\ ListsSorted(q, Conflicting(kwargs, adk_managed_args))
              /\ error.message =
                    IF Len(q) = 1
                    THEN <<"The argument ">> \o Quoted(q)
                         \o <<" conflicts with ADK's automatic configuration. ADK will set this argument automatically, so please remove it from your command.">>
                    ELSE <<"The arguments ">> \o Quoted(q)
                         \o <<" conflict with ADK's automatic configuration. ADK will set these arguments automatically, so please remove them from your command.">>

\* three conflicting names were reported
C1_Witness ==
    /\ pc = "raised"
    /\ Cardinality(Conflicting(kwargs, adk_managed_args)) = 3

\* C2: when no passthrough argument names a managed flag (the list may be
\* empty or absent), the validator returns without raising and leaves the
\* passthrough list and the managed set as they were.
C2_DisjointReturns ==
    [][(pc = "validate_only" /\ Conflicting(kwargs, adk_managed_args) = {}) =>
          /\ pc' = "returned"
          /\ error' = NoError
          /\ kwargs' = kwargs
          /\ adk_managed_args' = adk_managed_args]_vars

\* the validator returned on a non-empty list next to a non-empty managed set
C2_Witness ==
    /\ pc = "returned"
    /\ Len(PassthroughOf(kwargs)) = MaxValidatorArgs
    /\ <<"-", "-", "p", "o", "r", "t">> \in adk_managed_args
    /\ \E i \in 1..Len(PassthroughOf(kwargs)) : PassthroughOf(kwargs)[i] = <<"-", "-", "p", "o", "r", "t", "s", "=", "1">>

----------------------------------------------------------------------------

\* the flags the builder sets itself
BuilderFlags(kw) ==
    {<<"-", "-", "s", "o", "u", "r", "c", "e">>, <<"-", "-", "p", "r", "o", "j", "e", "c", "t">>, <<"-", "-", "p", "o", "r", "t">>, <<"-", "-", "s", "e", "t", "-", "e", "n", "v", "-", "v", "a", "r", "s">>, <<"-", "-", "v", "e", "r", "b", "o", "s", "i", "t", "y">>,
     <<"-", "-", "l", "a", "b", "e", "l", "s">>}
    \cup (IF truthy(region_of(kw)) THEN {<<"-", "-", "r", "e", "g", "i", "o", "n">>} ELSE {})

Occurrences(argv, flag) == {i \in 1..Len(argv) : FlagName(argv[i]) = flag}

\* C3: in every command handed to the deployment tool, each flag the builder
\* sets itself occurs exactly once: no passthrough argument supplies it too.
C3_NoManagedFlagTwice ==
    \A i \in DeployCalls :
        \A f \in BuilderFlags(kwargs) : Cardinality(Occurrences(calls[i].argv, f)) = 1

\* the label assignments of the passthrough list, and the rest of it
IsLabelAssignment(arg) == startswith(arg, <<"-", "-", "l", "a", "b", "e", "l", "s", "=">>)
LabelValues(q) ==
    LET idx == {i \in 1..Len(q) : IsLabelAssignment(q[i])}
        RECURSIVE Up(_)
        Up(i) == IF i > Len(q) THEN <<>>
                 ELSE (IF i \in idx THEN <<SubSeq(q[i], 10, Len(q[i]))>> ELSE <<>>) \o Up(i + 1)
    IN Up(1)
OtherArgs(q) ==
    LET RECURSIVE Up(_)
        Up(i) == IF i > Len(q) THEN <<>>
                 ELSE (IF IsLabelAssignment(q[i]) THEN <<>> ELSE <<q[i]>>) \o Up(i + 1)
    IN Up(1)

\* C4: the command holds a single "--labels" flag, its value is created-by=adk
\* followed by the user's label values in input order, and the other
\* passthrough arguments follow it unchanged, in order, as the last elements,
\* after every backend-managed flag.
C4_SingleLabelsFlag ==
    \A i \in DeployCalls :
        LET argv == calls[i].argv
            q == PassthroughOf(kwargs)
            at == Occurrences(argv, <<"-", "-", "l", "a", "b", "e", "l", "s">>)
        IN /\ Cardinality(at) = 1
           /\ \A k \in at :
                 /\ k < Len(argv)
                 /\ argv[k + 1] = join(<<",">>, <<<<"c", "r", "e", "a", "t", "e", "d", "-", "b", "y", "=", "a", "d", "k">>>> \o LabelValues(q))
                 /\ SubSeq(argv, k + 2, Len(argv)) = OtherArgs(q)
                 /\ \A f \in BuilderFlags(kwargs) \ {<<"-", "-", "l", "a", "b", "e", "l", "s">>} :
                       \E j \in 1..(k - 1) : argv[j] = f

----------------------------------------------------------------------------

\* the lines of a text, without their newlines
TextLines(text) ==
    LET ends == {i \in 1..Len(text) : text[i] = "\n"}
        starts == {1} \cup {i + 1 : i \in ends}
        StopOf(b) == IF \E e \in ends : e >= b
                     THEN (CHOOSE e \in ends : e >= b /\ \A f \in ends : f >= b => e <= f) - 1
                     ELSE Len(text)
        RECURSIVE Up(_)
        Up(b) == IF b > Len(text) THEN <<>>
                 ELSE <<SubSeq(text, b, StopOf(b))>> \o Up(StopOf(b) + 2)
    IN Up(1)

IsBlank(line) == \A i \in 1..Len(line) : line[i] \in Whitespace

\* t is line without its leading and trailing whitespace
Trimmed(line, t) ==
    /\ \E a, b \in 0..Len(line) :
          /\ a + Len(t) + b = Len(line)
          /\ SubSeq(line, a + 1, a + Len(t)) = t
          /\ \A i \in (1..a) \cup ((Len(line) - b + 1)..Len(line)) : line[i] \in Whitespace
    /\ t # <<>> => t[1] \notin Whitespace /\ t[Len(t)] \notin Whitespace

TrimOf(line) == CHOOSE t \in {SubSeq(line, a, b) : a \in 1..(Len(line) + 1), b \in 0..Len(line)} :
                    Trimmed(line, t)

CommaJoined(entries) ==
    LET RECURSIVE From(_)
        From(i) == IF i > Len(entries) THEN <<>>
                   ELSE IF i = Len(entries) THEN entries[i]
                   ELSE entries[i] \o <<",">> \o From(i + 1)
    IN From(1)

Select(q, Keep(_)) ==
    LET RECURSIVE Up(_)
        Up(i) == IF i > Len(q) THEN <<>>
                 ELSE (IF Keep(q[i]) THEN <<q[i]>> ELSE <<>>) \o Up(i + 1)
    IN Up(1)

HasEquals(e) == \E i \in 1..Len(e) : e[i] = "="

CliEntries(cli) == Select(cli, HasEquals)

\* the file entries as the lines themselves
RawFileEntries(file) ==
    IF file.exists
    THEN LET Keep(l) == ~IsBlank(l) /\ l[1] # "#" /\ HasEquals(l)
         IN Select(TextLines(file.text), Keep)
    ELSE <<>>

\* the file entries as the lines without surrounding whitespace
TrimmedFileEntries(file) ==
    IF file.exists
    THEN LET lines == TextLines(file.text)
             trimmed == [i \in 1..Len(lines) |-> TrimOf(lines[i])]
             Keep(l) == l # <<>> /\ l[1] # "#" /\ HasEquals(l)
         IN Select(trimmed, Keep)
    ELSE <<>>

NoStrayComma(text, nentries) ==
    /\ text # <<>> => text[1] # "," /\ text[Len(text)] # ","
    /\ \A i \in 1..(Len(text) - 1) : ~(text[i] = "," /\ text[i + 1] = ",")
    /\ Cardinality({i \in 1..Len(text) : text[i] = ","}) = (IF nentries = 0 THEN 0 ELSE nentries - 1)

\* C5 as stated: the combined string is the comma-join of the CLI entries that
\* contain "=", in input order, then the file lines that are non-blank, do not
\* start with "#" and contain "=", in file order, with no stray comma.
C5_RawLinesJoined ==
    pc = "collected" =>
        /\ env_vars_str = CommaJoined(CliEntries(env_vars) \o RawFileEntries(env_file))
        /\ NoStrayComma(env_vars_str,
                        Len(CliEntries(env_vars)) + Len(RawFileEntries(env_file)))

\* C5 amended: as above, with every file line taken without its leading and
\* trailing whitespace before it is tested and joined.
C5_TrimmedLinesJoined ==
    pc = "collected" =>
        /\ env_vars_str = CommaJoined(CliEntries(env_vars) \o TrimmedFileEntries(env_file))
        /\ NoStrayComma(env_vars_str,
                        Len(CliEntries(env_vars)) + Len(TrimmedFileEntries(env_file)))

\* CLI ["A=1", "B"] with a file holding a padded line, a comment and a plain line
C5_Witness ==
    /\ pc = "collected"
    /\ env_vars = <<<<"A", "=", "1">>, <<"B">>>>
    /\ env_file = File(<<" ", "E", "=", "5", " ", "\n", "#", "c", "=", "1", "\n">>)
    /\ env_vars_str = <<"A", "=", "1", ",", "E", "=", "5">>

----------------------------------------------------------------------------

ValueAfter(argv, flag) == argv[(CHOOSE i \in 1..Len(argv) : argv[i] = flag) + 1]

----------------------------------------------------------------------------

\* C7: get_deployer returns a DockerDeployer for "docker" and a
\* CloudRunDeployer for "cloud_run", never the same object twice, and raises
\* for every other name, returning nothing.
C7_FactorySelects ==
    /\ \A i \in 1..Len(returned) :
          LET r == returned[i]
          IN /\ r.name = "docker" => r.error = NoError /\ r.object \in 1..Len(objects)
                                     /\ objects[r.object] = "DockerDeployer"
             /\ r.name = "cloud_run" => r.error = NoError /\ r.object \in 1..Len(objects)
                                        /\ objects[r.object] = "CloudRunDeployer"
             /\ r.name \notin {"docker", "cloud_run"} =>
                   r.error.type = "ValueError" /\ r.object = 0
    /\ \A i, j \in 1..Len(returned) :
          (i # j /\ returned[i].object # 0 /\ returned[j].object # 0) =>
              returned[i].object # returned[j].object

\* both backends were returned and a name differing only in case was refused
C7_Witness ==
    /\ Len(returned) = 3
    /\ returned[1].name = "docker" /\ returned[2].name = "cloud_run"
    /\ returned[3].name = "Docker"
    /\ objects[returned[1].object] # objects[returned[2].object]

----------------------------------------------------------------------------

\* C8: _resolve_project returns the project given, without a lookup; with none
\* given it looks up once and returns the lookup's output without surrounding
\* whitespace, and raises a ClickException, resolving nothing, when the lookup
\* exits non-zero or prints nothing but whitespace.
C8_ProjectResolved ==
    [][pc = "resolve_project" =>
          LET given == kwargs.project
              new == SubSeq(calls', Len(calls) + 1, Len(calls'))
          IN IF given.some /\ given.val # <<>>
             THEN /\ project' = given.val
                  /\ new = <<>>
                  /\ error' = NoError
                  /\ pc' = "validate"
             ELSE /\ Len(new) = 1
                  /\ new[1].argv = <<<<"g", "c", "l", "o", "u", "d">>, <<"c", "o", "n", "f", "i", "g">>, <<"g", "e", "t", "-", "v", "a", "l", "u", "e">>, <<"p", "r", "o", "j", "e", "c", "t">>>>
                  /\ IF new[1].returncode # 0 \/ IsBlank(new[1].stdout)
                     THEN /\ error'.type = "ClickException"
                          /\ project' = <<>>
                          /\ pc' = "failed"
                     ELSE /\ Trimmed(new[1].stdout, project')
                          /\ project' # <<>>
                          /\ error' = NoError
                          /\ pc' = "validate"]_vars

\* the project came from a lookup whose output had a leading blank and a final newline
C8_Witness ==
    /\ pc = "validate"
    /\ ~kwargs.project.key
    /\ Len(calls) = 1
    /\ calls[1].stdout = <<" ", "p", "2", "\n">>
    /\ project = <<"p", "2">>

\* C9: deploy hands at most one command to `gcloud run deploy`: exactly one when
\* the project was resolved and no passthrough argument conflicts, none
\* otherwise; a non-zero exit ends the call with CalledProcessError and nothing
\* is invoked after it.
C9_DeployToolOnce ==
    deployer = "CloudRunDeployer" =>
        /\ Cardinality(DeployCalls) <= 1
        /\ pc \in {"done", "failed"} =>
              (Cardinality(DeployCalls) = 1
                  <=> (project # <<>> /\ Conflicting(kwargs, managed_args(kwargs)) = {}))
        /\ \A i \in DeployCalls :
              /\ i = Len(calls)
              /\ calls[i].returncode # 0 => pc = "failed" /\ error.type = "CalledProcessError"
              /\ calls[i].returncode = 0 => pc = "done" /\ error = NoError

\* the deployment tool exited non-zero after a successful lookup
C9_Witness ==
    /\ pc = "failed"
    /\ Len(calls) = 2
    /\ DeployCalls = {2}
    /\ calls[2].returncode = 1
    /\ error.type = "CalledProcessError"

IsDocker(c, verb) == Len(c.argv) >= 2 /\ c.argv[1] = <<"d", "o", "c", "k", "e", "r">> /\ c.argv[2] = verb

UrlEchoed ==
    \E i \in 1..Len(echoed) :
        echoed[i][1] = "Container running locally at http://localhost:"

\* C10: DockerDeployer.deploy invokes the build, then the run, each at most
\* once; the run only after the build exited with 0, the URL only after the run
\* exited with 0; a non-zero exit ends the call with CalledProcessError and
\* nothing, neither a retry nor a cleanup, is invoked after it.
C10_BuildThenRun ==
    deployer = "DockerDeployer" =>
        /\ Len(calls) <= 2
        /\ Len(calls) >= 1 => IsDocker(calls[1], <<"b", "u", "i", "l", "d">>)
        /\ Len(calls) = 2 => IsDocker(calls[2], <<"r", "u", "n">>) /\ calls[1].returncode = 0
        /\ UrlEchoed => Len(calls) = 2 /\ calls[2].returncode = 0
        /\ pc = "done" => Len(calls) = 2 /\ UrlEchoed
        /\ \A i \in 1..Len(calls) :
              calls[i].returncode # 0 =>
                  i = Len(calls) /\ pc = "failed" /\ error.type = "CalledProcessError"

\* the run failed after a successful build, and no URL was reported
C10_Witness ==
    /\ deployer = "DockerDeployer"
    /\ pc = "failed"
    /\ Len(calls) = 2
    /\ calls[1].returncode = 0
    /\ calls[2].returncode = 1
    /\ ~UrlEchoed

====
